---- MODULE Spec2Model ----
(***************************************************************************)
(* Model of scripts/generate_pages.py: the lead loader, the ledger store   *)
(* (generated.json) and the batch orchestrator main().                     *)
(*                                                                         *)
(* Text read from the CSV is a sequence of code points, so that str.strip  *)
(* is computed and not assumed.  created_at and source are TLA+ strings.   *)
(* A JSON object or a CSV row is a record that carries the set of keys it  *)
(* really has ("keys"); a field whose key is absent holds the empty text.  *)
(***************************************************************************)
EXTENDS Integers, Sequences, FiniteSets, TLC

\* ------------------------------------------------------------ constants
BATCH_SIZE == 40

\* ------------------------------------------------------------ bounds
\* longest CSV drawn from all sequences over BaseRows
MaxRows == 2
\* the long CSVs have up to BATCH_SIZE + MaxOver rows
MaxOver == 2
\* longest ledger file the first run can find
MaxLedger == 2
\* the clock runs over the seconds 0 .. MaxClock
MaxClock == 1
\* how many rows are appended to the CSV file between and during runs
MaxEdits == 1

\* ------------------------------------------------------------ text
\* str.isspace, for the ASCII code points
IsSpace(c) == c \in {9, 10, 11, 12, 13, 28, 29, 30, 31, 32}

RECURSIVE lstrip(_)
lstrip(s) ==
    IF s # <<>> /\ IsSpace(Head(s)) THEN lstrip(Tail(s)) ELSE s

RECURSIVE rstrip(_)
rstrip(s) ==
    IF s # <<>> /\ IsSpace(s[Len(s)]) THEN rstrip(SubSeq(s, 1, Len(s) - 1)) ELSE s

\* str.strip()
strip(s) == rstrip(lstrip(s))

\* ------------------------------------------------------------ Lead
required_fields == <<"slug", "business_name", "city", "service", "pain_point", "offer">>

\* row.get(field): None (modelled as the empty text, both are falsy) when
\* the row has no value under that column
row_get(row, field) == IF field \in row.keys THEN row[field] ELSE <<>>

\* missing = [field for field in required_fields if not row.get(field)]
missing(row) == SelectSeq(required_fields, LAMBDA f : row_get(row, f) = <<>>)

\* cls(slug=row["slug"].strip(), ...)
new_lead(row) ==
    [slug          |-> strip(row["slug"]),
     business_name |-> strip(row["business_name"]),
     city          |-> strip(row["city"]),
     service       |-> strip(row["service"]),
     pain_point    |-> strip(row["pain_point"]),
     offer         |-> strip(row["offer"])]

\* Lead.from_row: ok = FALSE stands for the ValueError
from_row(row) ==
    IF missing(row) # <<>>
    THEN [ok |-> FALSE, missing |-> missing(row)]
    ELSE [ok |-> TRUE, lead |-> new_lead(row)]

\* load_leads: the list comprehension raises at the first rejected row and
\* then returns nothing
leads_of(rows) == [i \in 1..Len(rows) |-> from_row(rows[i]).lead]

\* a load_leads that drops the rows from_row rejects and goes on
load_leads_skipping(rows) ==
    LET good == SelectSeq(rows, LAMBDA r : from_row(r).ok)
    IN  [ok |-> TRUE, leads |-> leads_of(good)]

load_leads(rows) ==
    IF \E i \in 1..Len(rows) : ~from_row(rows[i]).ok
    THEN [ok |-> FALSE, leads |-> <<>>]
    ELSE [ok |-> TRUE, leads |-> leads_of(rows)]

\* ------------------------------------------------------------ ledger
\* GeneratedEntry.to_dict
to_dict(entry) ==
    [isdict     |-> TRUE,
     keys       |-> {"slug", "created_at", "source"},
     slug       |-> entry.slug,
     created_at |-> entry.created_at,
     source     |-> entry.source]

\* an item.get that never finds the key
item_get_default(item, key, default) == default

\* item.get(key, default) for the two optional keys
item_get(item, key, default) == IF key \in item.keys THEN item[key] ELSE default

\* a skip test that also drops entries lacking created_at or source
skipped_incomplete(item) ==
    ~item.isdict \/ ~({"slug", "created_at", "source"} \subseteq item.keys)

\* "if not isinstance(item, dict) or "slug" not in item: continue"
skipped(item) == ~item.isdict \/ "slug" \notin item.keys

\* GeneratedEntry(slug=item["slug"], created_at=item.get(...), source=item.get(...))
load_item(item) ==
    [slug       |-> item.slug,
     created_at |-> item_get(item, "created_at", ""),
     source     |-> item_get(item, "source", "data/leads.csv")]

\* the loop of load_generated
load_items(items) ==
    LET kept == SelectSeq(items, LAMBDA item : ~skipped(item))
    IN  [i \in 1..Len(kept) |-> load_item(kept[i])]

\* entries = data.get("generated", []) if isinstance(data, dict) else data
\* top is "dict" for {"generated": [...]}, "nokey" for an object without
\* that key, "array" for a bare list, "null" for the JSON null
entries_of(file) == IF file.top = "nokey" THEN <<>> ELSE file.items

\* iterating None raises TypeError
load_raises(file) == file.top = "null"

load_generated(file) ==
    IF file.top = "absent" THEN <<>> ELSE load_items(entries_of(file))

\* [entry.to_dict() for entry in entries]
dicts_of(entries) == [i \in 1..Len(entries) |-> to_dict(entries[i])]

\* a save_generated that loses the last entry
save_generated_short(entries) ==
    [top |-> "dict",
     items |-> dicts_of(SubSeq(entries, 1, IF entries = <<>> THEN 0 ELSE Len(entries) - 1))]

\* save_generated: the whole file is replaced by {"generated": [...]}
save_generated(entries) == [top |-> "dict", items |-> dicts_of(entries)]

\* ------------------------------------------------------------ main
\* generated_slugs = {entry.slug for entry in generated_entries}
generated_slugs(entries) == {entries[i].slug : i \in 1..Len(entries)}

\* a fresh_leads that forgets the filter
fresh_leads_unfiltered(ls, slugs) == ls

\* fresh_leads = [lead for lead in leads if lead.slug not in generated_slugs]
fresh_leads(ls, slugs) == SelectSeq(ls, LAMBDA lead : lead.slug \notin slugs)

\* fresh_leads[:BATCH_SIZE]
batch_of(fresh) ==
    IF Len(fresh) <= BATCH_SIZE THEN fresh ELSE SubSeq(fresh, 1, BATCH_SIZE)

\* datetime.utcnow().strftime(TIMESTAMP_FORMAT), for the seconds of the clock
strftime(t) == "1970-01-01T00:00:0" \o ToString(t) \o "Z"

\* render_page: the document is determined by the six interpolated fields
render_page(lead) == [complete |-> TRUE, lead |-> lead]

\* what a failed write_text can leave behind: the file opened and truncated
truncated_page(lead) == [complete |-> FALSE, lead |-> lead]

\* GeneratedEntry(slug=lead.slug, created_at=now_str, source="data/leads.csv")
new_entry(lead, stamp) ==
    [slug |-> lead.slug, created_at |-> stamp, source |-> "data/leads.csv"]

\* ------------------------------------------------------------ inputs
AllKeys == {required_fields[i] : i \in 1..Len(required_fields)}

\* the i-th slug: one character, '1' '2' ... (none of them white space)
Slug(i) == <<48 + i>>

GoodRow(s) ==
    [keys |-> AllKeys, slug |-> s, business_name |-> <<120>>, city |-> <<120>>,
     service |-> <<120>>, pain_point |-> <<120>>, offer |-> <<120>>]

\* the same row with white space around the slug and the city
PaddedRow(s) ==
    [GoodRow(s) EXCEPT !.slug = <<32>> \o s \o <<9>>, !.city = <<32, 120>>]

\* a row whose field f is absent (a short row or a missing column), empty,
\* or made of white space only
BadKinds == {"absent", "empty", "blank"}

BadRow(s, f, kind) ==
    [GoodRow(s) EXCEPT
        !.keys = IF kind = "absent" THEN AllKeys \ {f} ELSE AllKeys,
        ![f]   = IF kind = "blank" THEN <<32>> ELSE <<>>]

SeqsUpTo(S, n) == UNION {[1..k -> S] : k \in 0..n}

BaseRows == {GoodRow(Slug(1)), GoodRow(Slug(2)), PaddedRow(Slug(1))}

ShortCSVs == SeqsUpTo(BaseRows, MaxRows)

\* a bad row after a valid row, and before one
BadCSVs ==
    {<<GoodRow(Slug(2)), BadRow(Slug(1), f, k)>> : f \in AllKeys, k \in BadKinds}
    \cup {<<BadRow(Slug(1), "slug", "absent"), GoodRow(Slug(2))>>}

\* more rows than one batch takes, all slugs different
LongCSV(n) == [i \in 1..n |-> GoodRow(Slug(i))]

LongCSVs == {LongCSV(BATCH_SIZE + k) : k \in 1..MaxOver}

CSVs == ShortCSVs \cup BadCSVs \cup LongCSVs

AbsentFile == [top |-> "absent", items |-> <<>>]

Entry0(s) == [slug |-> s, created_at |-> strftime(0), source |-> "data/leads.csv"]

\* items a hand-edited or older ledger can hold: a complete entry, an entry
\* with the slug alone, one with a further key, an object without slug, and
\* a value that is no object
NoItem == [isdict |-> FALSE, keys |-> {}, slug |-> <<>>, created_at |-> "", source |-> ""]

LegacyItems ==
    {to_dict(Entry0(Slug(1))),
     [NoItem EXCEPT !.isdict = TRUE, !.keys = {"slug"}, !.slug = Slug(2)],
     [to_dict(Entry0(Slug(2))) EXCEPT !.keys = @ \cup {"note"}],
     [NoItem EXCEPT !.isdict = TRUE, !.keys = {"created_at"}, !.created_at = strftime(0)],
     NoItem}

SlugsOfItems(items) ==
    {items[i].slug : i \in {j \in 1..Len(items) : items[j].isdict /\ "slug" \in items[j].keys}}

\* no two entries of the items carry the same slug
DupFree(items) ==
    \A i, j \in 1..Len(items) :
        (i # j /\ items[i].isdict /\ items[j].isdict
            /\ "slug" \in items[i].keys /\ "slug" \in items[j].keys)
        => items[i].slug # items[j].slug

\* ledgers this program wrote itself
PlainLedgers ==
    {AbsentFile} \cup
    {save_generated(es) :
        es \in {q \in SeqsUpTo({Entry0(Slug(1)), Entry0(Slug(2))}, MaxLedger) :
                    DupFree(dicts_of(q))}}

\* ledgers in the other shapes load_generated accepts, and one it does not
LegacyLedgers ==
    {[top |-> "nokey", items |-> <<>>], [top |-> "null", items |-> <<>>]} \cup
    {[top |-> t, items |-> q] :
        t \in {"dict", "array"},
        q \in {r \in SeqsUpTo(LegacyItems, MaxLedger) : r # <<>> /\ DupFree(r)}}

\* ------------------------------------------------------------ state
VARIABLES
    csv,                \* data/leads.csv: the rows under the header
    ledger,             \* data/generated.json
    outdir,             \* whether pages/ exists
    pages,              \* the files of pages/: [name, content]
    now,                \* the clock, in seconds
    edits,              \* how often the CSV was replaced
    pc,                 \* per invocation of main(): where it stands
    rows,               \* the rows load_leads read
    leads,              \* main: leads
    loaded,             \* what load_generated returned
    generated_entries,  \* main: generated_entries
    batch,              \* main: batch
    idx,                \* position of the for loop in batch
    now_str,            \* main: now_str
    outcome,            \* how the invocation ended
    pre,                \* the disk when the invocation started
    prev,               \* how the invocation before ended
    missed,             \* entries others saved since this one loaded
    lastSaver,          \* the invocation that wrote the ledger last
    rt                  \* a save/load round trip of the ledger store

vars == <<csv, ledger, outdir, pages, now, edits, pc, rows, leads, loaded,
          generated_entries, batch, idx, now_str, outcome, pre, prev, missed,
          lastSaver, rt>>

Procs == {1, 2}

Disk == [ledger |-> ledger, pages |-> pages, outdir |-> outdir]

NoDisk == [ledger |-> AbsentFile, pages |-> {}, outdir |-> FALSE]

NoPrev == [outcome |-> "none", left |-> 0]

RtOff == [stage |-> "off", entries |-> <<>>, file |-> AbsentFile, back |-> <<>>]

\* the state between two invocations
InitLocals ==
    /\ pc = [p \in Procs |-> "idle"]
    /\ rows = [p \in Procs |-> <<>>]
    /\ leads = [p \in Procs |-> <<>>]
    /\ loaded = [p \in Procs |-> <<>>]
    /\ generated_entries = [p \in Procs |-> <<>>]
    /\ batch = [p \in Procs |-> <<>>]
    /\ idx = [p \in Procs |-> 0]
    /\ now_str = [p \in Procs |-> ""]
    /\ outcome = [p \in Procs |-> "none"]
    /\ pre = [p \in Procs |-> NoDisk]
    /\ prev = [p \in Procs |-> NoPrev]
    /\ missed = [p \in Procs |-> {}]
    /\ lastSaver = 0

\* the files before the first run: one of the given CSVs beside a ledger
\* this program wrote, or a two-row CSV beside a ledger in any other shape
InitDisk(csvs) ==
    /\ \/ csv \in csvs /\ ledger \in PlainLedgers
       \/ csv = <<GoodRow(Slug(1)), GoodRow(Slug(2))>> /\ ledger \in LegacyLedgers
    /\ outdir = FALSE
    /\ pages = {}
    /\ now = 0
    /\ edits = 0

Init == InitDisk(ShortCSVs \cup BadCSVs) /\ InitLocals /\ rt = RtOff

\* ------------------------------------------------------------ main()
\* a main without the early return
no_batch_never(b) == FALSE

\* "if not batch": the early return of main
no_batch(b) == b = <<>>

\* output_file.write_text(...): the file is created or replaced
write_file(files, name, content) ==
    {f \in files : f.name # name} \cup {[name |-> name, content |-> content]}

\* line 169, with the start of the process: leads = load_leads(CSV_PATH)
LoadLeads(p) ==
    /\ pc[p] = "idle"
    /\ pre' = [pre EXCEPT ![p] = Disk]
    /\ rows' = [rows EXCEPT ![p] = csv]
    /\ LET r == load_leads(csv) IN
         IF r.ok
         THEN /\ leads' = [leads EXCEPT ![p] = r.leads]
              /\ pc' = [pc EXCEPT ![p] = "load_generated"]
              /\ UNCHANGED outcome
         ELSE /\ pc' = [pc EXCEPT ![p] = "done"]
              /\ outcome' = [outcome EXCEPT ![p] = "valerror"]
              /\ UNCHANGED leads
    /\ UNCHANGED <<csv, ledger, outdir, pages, now, edits, loaded, generated_entries,
                   batch, idx, now_str, prev, missed, lastSaver, rt>>

\* lines 170-178: the ledger is read, the batch chosen, and main returns
\* when the batch is empty
LoadGenerated(p) ==
    /\ pc[p] = "load_generated"
    /\ IF load_raises(ledger)
       THEN /\ pc' = [pc EXCEPT ![p] = "done"]
            /\ outcome' = [outcome EXCEPT ![p] = "loaderror"]
            /\ UNCHANGED <<loaded, generated_entries, batch>>
       ELSE LET es == load_generated(ledger)
                b  == batch_of(fresh_leads(leads[p], generated_slugs(es)))
            IN /\ loaded' = [loaded EXCEPT ![p] = es]
               /\ generated_entries' = [generated_entries EXCEPT ![p] = es]
               /\ batch' = [batch EXCEPT ![p] = b]
               /\ IF no_batch(b)
                  THEN /\ pc' = [pc EXCEPT ![p] = "done"]
                       /\ outcome' = [outcome EXCEPT ![p] = "noop"]
                  ELSE /\ pc' = [pc EXCEPT ![p] = "mkdir"]
                       /\ UNCHANGED outcome
    /\ UNCHANGED <<csv, ledger, outdir, pages, now, edits, rows, leads, idx, now_str,
                   pre, prev, missed, lastSaver, rt>>

\* lines 180-182: OUTPUT_DIR.mkdir(...) and now_str; utcnow() returns the
\* clock, which has moved on by any number of seconds since it was last read
Mkdir(p) ==
    /\ pc[p] = "mkdir"
    /\ outdir' = TRUE
    /\ \E t \in now..MaxClock :
         /\ now' = t
         /\ now_str' = [now_str EXCEPT ![p] = strftime(t)]
    /\ idx' = [idx EXCEPT ![p] = 1]
    /\ pc' = [pc EXCEPT ![p] = IF batch[p] = <<>> THEN "save" ELSE "loop"]
    /\ UNCHANGED <<csv, ledger, pages, edits, rows, leads, loaded,
                   generated_entries, batch, outcome, pre, prev, missed, lastSaver, rt>>

\* a loop that saves the ledger after every page
WritePage_saving(p) ==
    /\ pc[p] = "loop"
    /\ idx[p] <= Len(batch[p])
    /\ LET lead == batch[p][idx[p]] IN
         /\ pages' = write_file(pages, lead.slug, render_page(lead))
         /\ generated_entries' =
              [generated_entries EXCEPT ![p] = Append(@, new_entry(lead, now_str[p]))]
         /\ ledger' = save_generated(Append(generated_entries[p],
                                            new_entry(lead, now_str[p])))
    /\ idx' = [idx EXCEPT ![p] = @ + 1]
    /\ pc' = [pc EXCEPT ![p] = IF idx[p] + 1 > Len(batch[p]) THEN "save" ELSE "loop"]
    /\ UNCHANGED <<csv, outdir, now, edits, rows, leads, loaded, batch, now_str,
                   outcome, pre, prev, missed, lastSaver, rt>>

\* lines 183-189: one turn of the loop
WritePage(p) ==
    /\ pc[p] = "loop"
    /\ idx[p] <= Len(batch[p])
    /\ LET lead == batch[p][idx[p]] IN
         /\ pages' = write_file(pages, lead.slug, render_page(lead))
         /\ generated_entries' =
              [generated_entries EXCEPT ![p] = Append(@, new_entry(lead, now_str[p]))]
    /\ idx' = [idx EXCEPT ![p] = @ + 1]
    /\ pc' = [pc EXCEPT ![p] = IF idx[p] + 1 > Len(batch[p]) THEN "save" ELSE "loop"]
    /\ UNCHANGED <<csv, ledger, outdir, now, edits, rows, leads, loaded, batch, now_str,
                   outcome, pre, prev, missed, lastSaver, rt>>

\* line 185 raising OSError: the exception leaves main; the file is as it
\* was, or was opened and left truncated
WritePageFails(p) ==
    /\ pc[p] = "loop"
    /\ idx[p] <= Len(batch[p])
    /\ \E opened \in BOOLEAN :
         pages' = IF opened
                  THEN write_file(pages, batch[p][idx[p]].slug,
                                  truncated_page(batch[p][idx[p]]))
                  ELSE pages
    /\ pc' = [pc EXCEPT ![p] = "done"]
    /\ outcome' = [outcome EXCEPT ![p] = "ioerror"]
    /\ UNCHANGED <<csv, ledger, outdir, now, edits, rows, leads, loaded,
                   generated_entries, batch, idx, now_str, pre, prev, missed,
                   lastSaver, rt>>

\* the entries an invocation appended to what it loaded
appended(p) ==
    SubSeq(generated_entries[p], Len(loaded[p]) + 1, Len(generated_entries[p]))

\* a save that reads the file again and adds its own entries to it
Save_merging(p) ==
    /\ pc[p] = "save"
    /\ ledger' = save_generated(load_generated(ledger) \o appended(p))
    /\ pc' = [pc EXCEPT ![p] = "done"]
    /\ outcome' = [outcome EXCEPT ![p] = "ok"]
    /\ missed' = [q \in Procs |->
                    IF q # p /\ pc[q] \in {"mkdir", "loop", "save"}
                    THEN missed[q] \cup {appended(p)[i] : i \in 1..Len(appended(p))}
                    ELSE missed[q]]
    /\ lastSaver' = p
    /\ UNCHANGED <<csv, outdir, pages, now, edits, rows, leads, loaded,
                   generated_entries, batch, idx, now_str, pre, prev, rt>>

\* line 191: save_generated(GENERATED_PATH, generated_entries)
Save(p) ==
    /\ pc[p] = "save"
    /\ ledger' = save_generated(generated_entries[p])
    /\ pc' = [pc EXCEPT ![p] = "done"]
    /\ outcome' = [outcome EXCEPT ![p] = "ok"]
    /\ missed' = [q \in Procs |->
                    IF q # p /\ pc[q] \in {"mkdir", "loop", "save"}
                    THEN missed[q] \cup {appended(p)[i] : i \in 1..Len(appended(p))}
                    ELSE missed[q]]
    /\ lastSaver' = p
    /\ UNCHANGED <<csv, outdir, pages, now, edits, rows, leads, loaded,
                   generated_entries, batch, idx, now_str, pre, prev, rt>>

\* the process has ended; the next invocation starts afresh
Finish(p) ==
    /\ pc[p] = "done"
    /\ pc' = [pc EXCEPT ![p] = "idle"]
    /\ prev' = [prev EXCEPT ![p] =
                  [outcome |-> outcome[p],
                   left    |-> Len(fresh_leads(leads[p], generated_slugs(loaded[p])))
                               - Len(batch[p])]]
    /\ rows' = [rows EXCEPT ![p] = <<>>]
    /\ leads' = [leads EXCEPT ![p] = <<>>]
    /\ loaded' = [loaded EXCEPT ![p] = <<>>]
    /\ generated_entries' = [generated_entries EXCEPT ![p] = <<>>]
    /\ batch' = [batch EXCEPT ![p] = <<>>]
    /\ idx' = [idx EXCEPT ![p] = 0]
    /\ now_str' = [now_str EXCEPT ![p] = ""]
    /\ outcome' = [outcome EXCEPT ![p] = "none"]
    /\ pre' = [pre EXCEPT ![p] = NoDisk]
    /\ missed' = [missed EXCEPT ![p] = {}]
    /\ UNCHANGED <<csv, ledger, outdir, pages, now, edits, lastSaver, rt>>

\* somebody appends a row to data/leads.csv
AppendRow ==
    /\ edits < MaxEdits
    /\ edits' = edits + 1
    /\ \E r \in BaseRows : csv' = Append(csv, r)
    /\ UNCHANGED <<ledger, outdir, pages, now, pc, rows, leads, loaded,
                   generated_entries, batch, idx, now_str, outcome, pre, prev, missed,
                   lastSaver, rt>>

\* one invocation at a time, as the script is meant to be run; main reads the
\* CSV in its first step only, so a row appended during a run is a row
\* appended after it
Next ==
    \/ LoadLeads(1)
    \/ LoadGenerated(1)
    \/ Mkdir(1)
    \/ WritePage(1)
    \/ WritePageFails(1)
    \/ Save(1)
    \/ Finish(1)
    \/ (pc[1] = "idle" /\ AppendRow)

Spec == Init /\ [][Next]_vars

\* ------------------------------------------------------------ repeated runs
\* The same CSV run again and again, every run to its end: no write fails
\* and nobody touches the CSV.  The CSVs include those longer than a batch.
InitRuns == InitDisk(CSVs) /\ InitLocals /\ rt = RtOff

NextRuns ==
    \/ LoadLeads(1)
    \/ LoadGenerated(1)
    \/ Mkdir(1)
    \/ WritePage(1)
    \/ Save(1)
    \/ Finish(1)

\* a started process runs on, and the script is started again and again
SpecRuns == InitRuns /\ [][NextRuns]_vars /\ WF_vars(NextRuns)

\* ------------------------------------------------------------ two at once
\* Two invocations of main() on the same files, each run once and to its
\* end, their steps interleaved in every order.  A row appended after both
\* have read the CSV is seen by neither.
InitConc ==
    /\ csv \in SeqsUpTo({GoodRow(Slug(1)), GoodRow(Slug(2))}, MaxRows)
    /\ ledger \in {AbsentFile, save_generated(<<Entry0(Slug(1))>>)}
    /\ outdir = FALSE
    /\ pages = {}
    /\ now = 0
    /\ edits = 0
    /\ InitLocals
    /\ rt = RtOff

NextConc ==
    \/ \E p \in Procs :
         \/ LoadLeads(p)
         \/ LoadGenerated(p)
         \/ Mkdir(p)
         \/ WritePage(p)
         \/ Save(p)
    \/ ((\E p \in Procs : pc[p] = "idle") /\ AppendRow)

SpecConc == InitConc /\ [][NextConc]_vars

\* ------------------------------------------------------------ round trip
\* save_generated and load_generated on their own: a list of entries is
\* written, in the current format or as the bare array of the same objects,
\* and read back.
RtSources == {"data/leads.csv", "data/old.csv"}

RtEntries ==
    {[slug |-> s, created_at |-> c, source |-> o] :
        s \in {Slug(1), Slug(2)}, c \in {"", strftime(0)}, o \in RtSources}

InitRT ==
    /\ csv = <<>>
    /\ ledger = AbsentFile
    /\ outdir = FALSE
    /\ pages = {}
    /\ now = 0
    /\ edits = 0
    /\ InitLocals
    /\ \E es \in SeqsUpTo(RtEntries, MaxLedger) :
         rt = [stage |-> "given", entries |-> es, file |-> AbsentFile, back |-> <<>>]

RtSave ==
    /\ rt.stage = "given"
    /\ rt' = [rt EXCEPT !.stage = "saved", !.file = save_generated(rt.entries)]
    /\ UNCHANGED <<csv, ledger, outdir, pages, now, edits, pc, rows, leads, loaded,
                   generated_entries, batch, idx, now_str, outcome, pre, prev, missed,
                   lastSaver>>

\* the same objects as an older version stored them: a bare top-level array
RtSaveBare ==
    /\ rt.stage = "given"
    /\ rt' = [rt EXCEPT !.stage = "saved",
                        !.file = [top |-> "array", items |-> dicts_of(rt.entries)]]
    /\ UNCHANGED <<csv, ledger, outdir, pages, now, edits, pc, rows, leads, loaded,
                   generated_entries, batch, idx, now_str, outcome, pre, prev, missed,
                   lastSaver>>

RtLoad ==
    /\ rt.stage = "saved"
    /\ rt' = [rt EXCEPT !.stage = "loaded", !.back = load_generated(rt.file)]
    /\ UNCHANGED <<csv, ledger, outdir, pages, now, edits, pc, rows, leads, loaded,
                   generated_entries, batch, idx, now_str, outcome, pre, prev, missed,
                   lastSaver>>

NextRT == RtSave \/ RtSaveBare \/ RtLoad

SpecRT == InitRT /\ [][NextRT]_vars

\* ============================================================ properties
\* What the properties mean by the entries of a ledger file: its items that
\* are objects with a slug; a file that is absent has none.
LedgerSlugs(file) ==
    IF file.top \in {"dict", "array"} THEN SlugsOfItems(file.items) ELSE {}

\* the leads of a list that are fresh for a ledger file, in the list's order
FreshOf(ls, file) == SelectSeq(ls, LAMBDA l : l.slug \notin LedgerSlugs(file))

Min(a, b) == IF a <= b THEN a ELSE b

\* the invocation has loaded leads and ledger and chosen its batch
Chosen(p) ==
    \/ pc[p] \in {"mkdir", "loop", "save"}
    \/ pc[p] = "done" /\ outcome[p] \in {"noop", "ok", "ioerror"}

\* C1: the batch of a run is the first min(BATCH_SIZE, n) of the leads whose
\* slug no ledger entry carries, in CSV row order; the run writes a page and
\* appends an entry for leads of the batch only, so for no lead whose slug
\* the ledger already held.
C1_BatchIsFreshPrefix ==
    \A p \in Procs :
        Chosen(p) =>
            LET F == FreshOf(leads[p], pre[p].ledger) IN
            /\ Len(leads[p]) = Len(rows[p])
            /\ \A i \in 1..Len(leads[p]) : leads[p][i].slug = strip(rows[p][i].slug)
            /\ batch[p] = SubSeq(F, 1, Min(BATCH_SIZE, Len(F)))
            /\ \A f \in pages \ pre[p].pages :
                 /\ f.name \notin LedgerSlugs(pre[p].ledger)
                 /\ \E k \in 1..Len(batch[p]) : batch[p][k].slug = f.name
            /\ Len(appended(p)) <= Len(batch[p])
            /\ \A i \in 1..Len(appended(p)) :
                 /\ appended(p)[i].slug = batch[p][i].slug
                 /\ appended(p)[i].slug \notin LedgerSlugs(pre[p].ledger)
            /\ (pc[p] = "done" /\ outcome[p] = "ok") =>
                 LedgerSlugs(ledger) =
                    LedgerSlugs(pre[p].ledger) \cup {batch[p][k].slug : k \in 1..Len(batch[p])}

\* a finished run that found more fresh leads than a batch takes, and a lead
\* that was in the ledger already
C1_Witness ==
    /\ pc[1] = "done" /\ outcome[1] = "ok"
    /\ Len(FreshOf(leads[1], pre[1].ledger)) > BATCH_SIZE
    /\ Len(batch[1]) = BATCH_SIZE
    /\ \E i \in 1..Len(leads[1]) : leads[1][i].slug \in LedgerSlugs(pre[1].ledger)

\* the CSV as it stands loads, the ledger as it stands loads
InputRuns == load_leads(csv).ok /\ ~load_raises(ledger)

\* every lead of the CSV has its slug in the ledger
AllLedgered ==
    /\ load_leads(csv).ok
    /\ \A i \in 1..Len(csv) : strip(csv[i].slug) \in LedgerSlugs(ledger)

\* C9 as amended: with the CSV unchanged and every run completing, each
\* successful run ledgers the first min(BATCH_SIZE, n) fresh leads; in the
\* end every lead's slug is in the ledger and stays there; from then on no
\* step changes the disk; and a run that follows a successful run whose
\* batch held every fresh lead ends with "no new leads" and the disk as it
\* found it.
C9_Converges ==
    /\ <>[](~InputRuns \/ AllLedgered)
    /\ [][AllLedgered => (Disk' = Disk)]_vars
    /\ [](\A p \in Procs :
            (pc[p] = "done" /\ outcome[p] = "ok") =>
                /\ Len(batch[p]) =
                     Min(BATCH_SIZE, Len(FreshOf(leads[p], pre[p].ledger)))
                /\ \A k \in 1..Len(batch[p]) : batch[p][k].slug \in LedgerSlugs(ledger))
    /\ [](\A p \in Procs :
            (pc[p] = "done" /\ prev[p].outcome = "ok" /\ prev[p].left = 0) =>
                (outcome[p] = "noop" /\ Disk = pre[p]))

\* the second of two runs over the same CSV has ended, the first had ledgered
\* every fresh lead, and all leads are in the ledger
C9_Witness ==
    /\ pc[1] = "done" /\ outcome[1] = "noop"
    /\ prev[1].outcome = "ok" /\ prev[1].left = 0
    /\ Len(csv) > 0
    /\ AllLedgered
    /\ Disk = pre[1]

\* C9 as it was stated: a run that follows a successful run over the same
\* CSV writes nothing.
C9_SecondRunWritesNothing ==
    \A p \in Procs :
        (pc[p] = "done" /\ prev[p].outcome = "ok") =>
            (outcome[p] = "noop" /\ Disk = pre[p])

\* C2: a run that finds no fresh lead (every slug of the CSV is in the
\* ledger, or the CSV has no rows) leaves the disk as it found it: the
\* ledger file is neither rewritten nor created, pages/ is not created, no
\* page is written.
C2_NoFreshIsNoOp ==
    \A p \in Procs :
        ( /\ pc[p] = "done"
          /\ outcome[p] \notin {"valerror", "loaderror"}
          /\ \A i \in 1..Len(leads[p]) : leads[p][i].slug \in LedgerSlugs(pre[p].ledger) )
        => (outcome[p] = "noop" /\ Disk = pre[p])

\* such a run over a CSV with rows, beside a ledger kept as a bare array and
\* no pages/ directory
C2_Witness ==
    /\ pc[1] = "done" /\ outcome[1] = "noop"
    /\ Len(leads[1]) > 0
    /\ ledger.top = "array"
    /\ ~outdir
    /\ Disk = pre[1]

\* C3 as stated: every Lead that load_leads returns has its six fields
\* non-empty after trimming, and a row with a required field absent or empty
\* after trimming is rejected.
C3_LeadsHaveAllFields ==
    \A p \in Procs :
        (pc[p] # "idle" /\ outcome[p] # "valerror") =>
            /\ \A i \in 1..Len(rows[p]) : \A f \in AllKeys :
                 strip(row_get(rows[p][i], f)) # <<>>
            /\ \A i \in 1..Len(leads[p]) : \A f \in AllKeys : leads[p][i][f] # <<>>

\* what the validation rejects: a required field without a value or with
\* the empty string
Rejected(row) == \E f \in AllKeys : f \notin row.keys \/ row[f] = <<>>

\* C4: when a row of the CSV is rejected, wherever it stands, the run ends
\* at once with the error and the disk as it was: no page, no pages/, the
\* ledger unchanged, the valid rows before it not processed.
C4_RejectedRowAborts ==
    \A p \in Procs :
        (pc[p] # "idle" /\ \E i \in 1..Len(rows[p]) : Rejected(rows[p][i])) =>
            /\ pc[p] = "done"
            /\ outcome[p] = "valerror"
            /\ leads[p] = <<>>
            /\ Disk = pre[p]

\* a run rejected for its second row, whose first row was valid and fresh
C4_Witness ==
    /\ pc[1] = "done" /\ outcome[1] = "valerror"
    /\ Len(rows[1]) = 2
    /\ ~Rejected(rows[1][1]) /\ Rejected(rows[1][2])
    /\ strip(rows[1][1].slug) \notin LedgerSlugs(ledger)
    /\ pages = {} /\ ~outdir
    /\ Disk = pre[1]

C6_OneEntryPerSlug == DupFree(ledger.items)

\* C7 as stated: after a successful run the items the ledger file held
\* before are all there, unchanged and in order, followed by one entry per
\* lead of the batch.
C7_AppendOnly ==
    \A p \in Procs :
        (pc[p] = "done" /\ outcome[p] = "ok") =>
            LET old == pre[p].ledger.items
                new == ledger.items
            IN  /\ Len(new) = Len(old) + Len(batch[p])
                /\ \A i \in 1..Len(old) : new[i] = old[i]
                /\ \A k \in 1..Len(batch[p]) :
                     new[Len(old) + k].slug = batch[p][k].slug

\* the items of a ledger file that are entries
WellFormed(items) == SelectSeq(items, LAMBDA it : it.isdict /\ "slug" \in it.keys)

\* C7 as amended: after a successful run the ledger file holds, under
\* "generated", every item it held before that is an object with a slug, in
\* the same order, with its slug, created_at and source (created_at "" and
\* source "data/leads.csv" where the item had none, any other key dropped),
\* followed by one new entry per lead of the batch, in batch order; items
\* that are no objects or have no slug are gone.
C7_AppendsToLoadedEntries ==
    \A p \in Procs :
        (pc[p] = "done" /\ outcome[p] = "ok") =>
            LET old == WellFormed(pre[p].ledger.items)
                new == ledger.items
            IN  /\ ledger.top = "dict"
                /\ Len(new) = Len(old) + Len(batch[p])
                /\ \A i \in 1..Len(new) :
                     new[i].isdict /\ new[i].keys = {"slug", "created_at", "source"}
                /\ \A i \in 1..Len(old) :
                     /\ new[i].slug = old[i].slug
                     /\ new[i].created_at =
                          (IF "created_at" \in old[i].keys THEN old[i].created_at ELSE "")
                     /\ new[i].source =
                          (IF "source" \in old[i].keys THEN old[i].source
                                                      ELSE "data/leads.csv")
                /\ \A k \in 1..Len(batch[p]) :
                     /\ new[Len(old) + k].slug = batch[p][k].slug
                     /\ new[Len(old) + k].created_at = now_str[p]
                     /\ new[Len(old) + k].source = "data/leads.csv"

\* a successful run beside a ledger that held an entry without created_at
\* and an item that is no entry
C7_Witness ==
    /\ pc[1] = "done" /\ outcome[1] = "ok"
    /\ Len(batch[1]) > 0
    /\ Len(WellFormed(pre[1].ledger.items)) < Len(pre[1].ledger.items)
    /\ \E i \in 1..Len(pre[1].ledger.items) :
         /\ pre[1].ledger.items[i].isdict
         /\ pre[1].ledger.items[i].keys = {"slug"}
    /\ Len(ledger.items) = Len(WellFormed(pre[1].ledger.items)) + Len(batch[1])

\* C8: entries saved and loaded again come back the same in number, order,
\* slug, created_at and source, and so do the same entries stored as a bare
\* array.
C8_RoundTrip ==
    rt.stage = "loaded" =>
        /\ Len(rt.back) = Len(rt.entries)
        /\ \A i \in 1..Len(rt.entries) :
             /\ rt.back[i].slug = rt.entries[i].slug
             /\ rt.back[i].created_at = rt.entries[i].created_at
             /\ rt.back[i].source = rt.entries[i].source

\* two entries, one with an empty created_at and one with another source,
\* read back from a bare array
C8_Witness ==
    /\ rt.stage = "loaded"
    /\ rt.file.top = "array"
    /\ Len(rt.entries) = 2
    /\ rt.entries[1].created_at = ""
    /\ rt.entries[2].source # "data/leads.csv"
    /\ rt.back = rt.entries

\* C10: when an invocation saves after another one saved that it did not
\* see (it had loaded the ledger before), the file it leaves holds what it
\* loaded and appended itself: an entry the earlier save appended is in the
\* file only if the later invocation had the slug too, while the page of
\* every such entry is on disk.
C10_LaterSaveOverwrites ==
    \A q \in Procs :
        (pc[q] = "done" /\ outcome[q] = "ok" /\ lastSaver = q) =>
            \A e \in missed[q] :
                /\ \E f \in pages : f.name = e.slug /\ f.content.complete
                /\ e.slug \in LedgerSlugs(ledger) =>
                     e.slug \in generated_slugs(generated_entries[q])

\* both invocations loaded before either saved, both saved, and the ledger
\* lacks a slug the earlier one had appended and written the page of
C10_Witness ==
    \E q \in Procs :
        /\ pc[q] = "done" /\ outcome[q] = "ok" /\ lastSaver = q
        /\ \A p \in Procs : pc[p] = "done" /\ outcome[p] = "ok"
        /\ \E e \in missed[q] :
             /\ e.slug \notin LedgerSlugs(ledger)
             /\ \E f \in pages : f.name = e.slug /\ f.content.complete

====
